---- MODULE Spec2Model ----
(***************************************************************************)
(* Model of tools/extract_tags.py: the tag pattern, the snippet builder,   *)
(* the page scan of extract_tags_from_pdf, save_index and main.            *)
(* A text is a sequence of one-character strings.  Offsets are Python      *)
(* offsets (0-based, end exclusive); TLA+ sequences are 1-based, so the    *)
(* character at Python offset i is text[i + 1].                            *)
(***************************************************************************)
EXTENDS Integers, Sequences, FiniteSets, TLC

VARIABLES
    pc,               \* position of main / extract_tags_from_pdf / save_index
    doc,              \* the file named by args.pdf_file
    handle,           \* the fitz document handle: unopened, open, closed
    closes,           \* number of doc.close() calls
    num_pages,        \* len(doc)
    page_num,         \* loop variable of the page loop
    text,             \* page.get_text("text")
    matches,          \* the matches TAG_PATTERN.finditer(text) yields
    match_i,          \* position in matches (1-based)
    text_instances,   \* page.search_for(match.group(0))
    rect_i,           \* position in text_instances (1-based)
    tag_occurrences,  \* dict tag -> list of occurrences
    all_tags,         \* set of tags
    index,            \* the Index returned by extract_tags_from_pdf
    outfile,          \* the file at args.output: [exists, content]
    out_handle,       \* the handle of open(output_path, 'w')
    stdout,           \* lines printed to standard output
    stderr,           \* lines printed to standard error
    exit_code,        \* process exit status, -1 while running
    exc,              \* the exception in flight, "none" if none
    log,              \* history: appended occurrences in the order of appending
    calls,            \* history: the search_for calls and their result sizes
    arg,              \* input of the pure function under check
    ret               \* its result

vars == <<pc, doc, handle, closes, num_pages, page_num, text, matches, match_i,
          text_instances, rect_i, tag_occurrences, all_tags, index, outfile,
          out_handle, stdout, stderr, exit_code, exc, log, calls, arg, ret>>

(***************************************************************************)
(* Bounds                                                                  *)
(***************************************************************************)
\* most rectangles one search_for call returns
MaxRects == 2
\* longest padding put before and after a candidate tag
MaxPad == 1
\* longest text given to extract_snippet
MaxTextLen == 4
\* largest context_chars given to extract_snippet
MaxContext == 2

Max(a, b) == IF a >= b THEN a ELSE b
Min(a, b) == IF a <= b THEN a ELSE b

(***************************************************************************)
(* Characters                                                              *)
(***************************************************************************)
Digits == {"0", "1", "2", "3", "4", "5", "6", "7", "8", "9"}
LowerLetters == <<"a","b","c","d","e","f","g","h","i","j","k","l","m","n","o","p","q","r","s","t","u","v","w","x","y","z">>
UpperLetters == <<"A","B","C","D","E","F","G","H","I","J","K","L","M","N","O","P","Q","R","S","T","U","V","W","X","Y","Z">>
Range(s) == {s[i] : i \in DOMAIN s}
UpperSet == Range(UpperLetters)
LowerSet == Range(LowerLetters)
Whitespace == {" ", "\t", "\n"}

\* \d
IsDigit(c) == c \in Digits
\* [A-Z] under re.IGNORECASE
IsLetter(c) == c \in UpperSet \cup LowerSet
\* \w: letters, digits and the underscore
IsWord(c) == IsDigit(c) \/ IsLetter(c) \/ c = "_"

\* str.upper() on one character
UpperChar(c) ==
    IF c \in LowerSet
    THEN UpperLetters[CHOOSE i \in DOMAIN LowerLetters : LowerLetters[i] = c]
    ELSE c
\* str.upper()
Upper(s) == [i \in DOMAIN s |-> UpperChar(s[i])]

\* a slice bound as Python normalises it: negative bounds count from the end
SliceBound(s, a) == IF a < 0 THEN Max(0, a + Len(s)) ELSE Min(a, Len(s))
\* text[a:b]
Slice(s, a, b) == SubSeq(s, SliceBound(s, a) + 1, SliceBound(s, b))

(***************************************************************************)
(* TAG_PATTERN = \b(\d{2}/[A-Z]{2}\d{3,4})\b, re.IGNORECASE                 *)
(***************************************************************************)
\* is there a word character at Python offset i
WordAt(s, i) == i >= 0 /\ i < Len(s) /\ IsWord(s[i + 1])
\* \b at offset i: exactly one side is a word character
WordBoundary_NoCheck(s, i) == TRUE
WordBoundary(s, i) == WordAt(s, i - 1) # WordAt(s, i)
\* is there a digit at offset i
DigitAt(s, i) == i >= 0 /\ i < Len(s) /\ IsDigit(s[i + 1])
LetterAt(s, i) == i >= 0 /\ i < Len(s) /\ IsLetter(s[i + 1])

\* \b\d{2}/[A-Z]{2} matched at offset i
PrefixAt(s, i) ==
    /\ WordBoundary(s, i)
    /\ DigitAt(s, i) /\ DigitAt(s, i + 1)
    /\ i + 2 < Len(s) /\ s[i + 3] = "/"
    /\ LetterAt(s, i + 3) /\ LetterAt(s, i + 4)
\* \d{n}\b matched at offset j
DigitsThenBoundary(s, j, n) ==
    /\ \A k \in 0..(n - 1) : DigitAt(s, j + k)
    /\ WordBoundary(s, j + n)
\* end offset of the match of the pattern starting at offset i, -1 if none;
\* \d{3,4} is greedy: four digits are tried first, then three
MatchEnd(s, i) ==
    IF ~PrefixAt(s, i) THEN -1
    ELSE IF DigitsThenBoundary(s, i + 5, 4) THEN i + 9
    ELSE IF DigitsThenBoundary(s, i + 5, 3) THEN i + 8
    ELSE -1

\* the matches finditer yields scanning from offset i: leftmost first,
\* the scan resumes at the end of each match
RECURSIVE FindFrom(_, _)
FindFrom(s, i) ==
    IF i >= Len(s) THEN <<>>
    ELSE LET e == MatchEnd(s, i)
         IN IF e = -1 THEN FindFrom(s, i + 1)
            ELSE <<[start |-> i, end |-> e, group |-> Slice(s, i, e)]>>
                 \o FindFrom(s, e)
\* TAG_PATTERN.finditer(text)
finditer(s) == FindFrom(s, 0)

(***************************************************************************)
(* extract_snippet                                                         *)
(***************************************************************************)
\* The operators below take their argument through x \in {s}, which names the
\* value of s once instead of recomputing it at every use.

\* first offset from i on that holds no whitespace
RECURSIVE LStripFrom(_, _)
LStripFrom(s, i) ==
    IF i <= Len(s) /\ s[i] \in Whitespace THEN LStripFrom(s, i + 1) ELSE i
\* last offset up to j that holds no whitespace
RECURSIVE RStripTo(_, _)
RStripTo(s, j) ==
    IF j >= 1 /\ s[j] \in Whitespace THEN RStripTo(s, j - 1) ELSE j
\* str.strip(): drop leading and trailing whitespace
Strip(s) ==
    CHOOSE r \in {SubSeq(x, LStripFrom(x, 1), RStripTo(x, Len(x))) : x \in {s}} :
        TRUE

\* last position of the run of non-whitespace characters that holds i
RECURSIVE WordEnd(_, _)
WordEnd(s, i) ==
    IF i < Len(s) /\ s[i + 1] \notin Whitespace THEN WordEnd(s, i + 1) ELSE i
\* the maximal runs of non-whitespace characters from position i on
RECURSIVE SplitFrom(_, _)
SplitFrom(s, i) ==
    IF i > Len(s) THEN <<>>
    ELSE IF s[i] \in Whitespace THEN SplitFrom(s, i + 1)
    ELSE <<SubSeq(s, i, WordEnd(s, i))>> \o SplitFrom(s, WordEnd(s, i) + 1)
\* str.split()
Split(s) == CHOOSE r \in {SplitFrom(x, 1) : x \in {s}} : TRUE
\* ' '.join(words), from the k-th word on
RECURSIVE JoinFrom(_, _)
JoinFrom(words, k) ==
    IF k > Len(words) THEN <<>>
    ELSE IF k = Len(words) THEN words[k]
    ELSE words[k] \o <<" ">> \o JoinFrom(words, k + 1)
\* ' '.join(words)
Join(words) == CHOOSE r \in {JoinFrom(x, 1) : x \in {words}} : TRUE

Ellipsis == <<".", ".", ".">>
snippet_start_NoClamp(start, context_chars) == start - context_chars
snippet_start(start, context_chars) == Max(0, start - context_chars)
snippet_end(s, end, context_chars) == Min(Len(s), end + context_chars)
extract_snippet(s, start, end, context_chars) ==
    LET ss == snippet_start(start, context_chars)
        se == snippet_end(s, end, context_chars)
        cleaned == Join(Split(Strip(Slice(s, ss, se))))
        pre == IF ss > 0 THEN Ellipsis \o cleaned ELSE cleaned
    IN IF se < Len(s) THEN pre \o Ellipsis ELSE pre
\* the default of the context_chars parameter
DefaultContextChars == 50

(***************************************************************************)
(* Input documents and the output file                                     *)
(***************************************************************************)
Page1Text == <<"s","e","e"," ","d","e","t","a","i","l"," ","0","1","/","A","C","5","0","1"," ","f","o","r"," ","m","o","r","e">>
Page2Text == <<"g","e","n","e","r","a","l"," ","n","o","t","e","s">>
Page3Text == <<"0","1","/","A","C","5","0","1"," ","0","1","/","A","C","5","0","1"," ","0","3","/","A","C","6","0","2">>
LowerText == <<"r","e","f"," ","0","3","/","a","c","6","0","2","\n"," ","0","0","1","/","A","C","5","0","1">>

\* a path that does not exist
MissingDoc == [name |-> "missing.pdf", exists |-> FALSE, valid |-> FALSE, pages |-> <<>>]
\* a file fitz.open cannot parse
BrokenDoc == [name |-> "broken.pdf", exists |-> TRUE, valid |-> FALSE, pages |-> <<>>]
\* three pages: one tag, no tag, one tag twice and another once
ScenarioDoc == [name |-> "plans.pdf", exists |-> TRUE, valid |-> TRUE,
                pages |-> <<Page1Text, Page2Text, Page3Text>>]
\* one page with a lower-case tag and a token that is not a tag
LowerDoc == [name |-> "lower.pdf", exists |-> TRUE, valid |-> TRUE,
             pages |-> <<LowerText>>]
Docs == {MissingDoc, BrokenDoc, ScenarioDoc, LowerDoc}

NoFile == [exists |-> FALSE, content |-> <<>>]
OldFile == [exists |-> TRUE, content |-> <<<<"old", 0>>>>]
NoIndex == [pdf_file |-> "", total_pages |-> 0, total_tags |-> 0, tags |-> <<>>]

\* the k-th rectangle of a search_for result, coordinates in thousandths
Rect(k) == [x0 |-> 1000 * k + 4, y0 |-> 2006, x1 |-> 1000 * k + 801, y1 |-> 2996]
\* round(v, 2) on a coordinate in thousandths
Round2(v) == ((v + 5) \div 10) * 10

\* json.dump(index, f): the chunks written, in key order
Serialize(idx) ==
    << <<"pdf_file", idx.pdf_file>>, <<"total_pages", idx.total_pages>>,
       <<"total_tags", idx.total_tags>>, <<"tags", idx.tags>> >>
NumChunks == 4

(***************************************************************************)
(* main, extract_tags_from_pdf, save_index                                 *)
(***************************************************************************)
PureIdle == arg = <<>> /\ ret = <<>>

MainStart ==
    /\ handle = "unopened" /\ closes = 0
    /\ num_pages = 0 /\ page_num = 0 /\ text = <<>> /\ matches = <<>>
    /\ match_i = 0 /\ text_instances = <<>> /\ rect_i = 0
    /\ tag_occurrences = <<>> /\ all_tags = {}
    /\ index = NoIndex
    /\ out_handle = "unopened"
    /\ stdout = <<>> /\ stderr = <<>> /\ exit_code = -1 /\ exc = "none"
    /\ log = <<>> /\ calls = <<>>

Init ==
    /\ pc = "main"
    /\ doc \in Docs
    /\ outfile \in {NoFile, OldFile}
    /\ MainStart
    /\ PureIdle

scan == <<num_pages, page_num, text, matches, match_i, text_instances, rect_i,
          tag_occurrences, all_tags, log, calls>>
io == <<outfile, out_handle, stdout, stderr, exit_code>>
pure == <<arg, ret>>

\* raise: control goes to the except clause of main
Raise(kind) == pc' = "except" /\ exc' = kind

PathExists_Unchecked(d) == TRUE
PathExists(d) == d.exists

\* if not pdf_path.exists(): raise FileNotFoundError
CheckExists ==
    /\ pc = "main"
    /\ PathExists(doc)
    /\ pc' = "open"
    /\ UNCHANGED <<doc, handle, closes, scan, index, io, exc, pure>>
CheckExistsFails ==
    /\ pc = "main"
    /\ ~PathExists(doc)
    /\ Raise("FileNotFound")
    /\ UNCHANGED <<doc, handle, closes, scan, index, io, pure>>

\* doc = fitz.open(pdf_path) ... print("Scanning ...")
OpenDoc ==
    /\ pc = "open"
    /\ doc.valid
    /\ handle' = "open"
    /\ num_pages' = Len(doc.pages)
    /\ tag_occurrences' = <<>>
    /\ all_tags' = {}
    /\ stdout' = Append(stdout, "Scanning")
    /\ page_num' = 0
    /\ pc' = "page_loop"
    /\ UNCHANGED <<doc, closes, text, matches, match_i, text_instances, rect_i,
                   index, outfile, out_handle, stderr, exit_code, exc, log,
                   calls, pure>>
OpenDocFails ==
    /\ pc = "open"
    /\ ~doc.valid
    /\ Raise("InvalidDocument")
    /\ UNCHANGED <<doc, handle, closes, scan, index, io, pure>>

\* page = doc[page_num]; text = page.get_text("text"); matches = finditer(text)
GetText ==
    /\ pc = "page_loop"
    /\ page_num < num_pages
    /\ text' = doc.pages[page_num + 1]
    /\ matches' = finditer(text')
    /\ match_i' = 1
    /\ pc' = "match_loop"
    /\ UNCHANGED <<doc, handle, closes, num_pages, page_num, text_instances,
                   rect_i, tag_occurrences, all_tags, log, calls, index, io,
                   exc, pure>>
\* loading the page or extracting its text raises
GetTextFails ==
    /\ pc = "page_loop"
    /\ page_num < num_pages
    /\ Raise("PageError")
    /\ UNCHANGED <<doc, handle, closes, scan, index, io, pure>>

AddTag_Skip(tags, tag) == tags
AddTag(tags, tag) == tags \cup {tag}
\* tag = match.group(1).upper()
CurTag == Upper(matches[match_i].group)

\* for match in matches: tag = ...; all_tags.add(tag)
NextMatch ==
    /\ pc = "match_loop"
    /\ match_i <= Len(matches)
    /\ all_tags' = AddTag(all_tags, CurTag)
    /\ pc' = "search"
    /\ UNCHANGED <<doc, handle, closes, num_pages, page_num, text, matches,
                   match_i, text_instances, rect_i, tag_occurrences, log, calls,
                   index, io, exc, pure>>
\* the matches of the page are exhausted: next page_num of range(num_pages)
NextPage ==
    /\ pc = "match_loop"
    /\ match_i > Len(matches)
    /\ page_num' = page_num + 1
    /\ pc' = "page_loop"
    /\ UNCHANGED <<doc, handle, closes, num_pages, text, matches, match_i,
                   text_instances, rect_i, tag_occurrences, all_tags, log,
                   calls, index, io, exc, pure>>

\* text_instances = page.search_for(match.group(0)): the library decides
\* how many rectangles it returns
SearchFor ==
    /\ pc = "search"
    /\ \E n \in 0..MaxRects :
        /\ text_instances' = [k \in 1..n |-> Rect(k)]
        /\ calls' = Append(calls, [page |-> page_num,
                                   needle |-> matches[match_i].group, n |-> n])
    /\ rect_i' = 1
    /\ pc' = "rect_loop"
    /\ UNCHANGED <<doc, handle, closes, num_pages, page_num, text, matches,
                   match_i, tag_occurrences, all_tags, log, index, io, exc,
                   pure>>
SearchForFails ==
    /\ pc = "search"
    /\ Raise("SearchError")
    /\ UNCHANGED <<doc, handle, closes, scan, index, io, pure>>

PageNumber_ZeroBased(p) == p
\* "page": page_num + 1
PageNumber(p) == p + 1
AppendOccurrence_AtFront(list, occ) == <<occ>> \o list
\* tag_occurrences[tag].append(occurrence)
AppendOccurrence(list, occ) == Append(list, occ)

Occurrence(rect) ==
    [page |-> PageNumber(page_num),
     snippet |-> extract_snippet(text, matches[match_i].start,
                                 matches[match_i].end, DefaultContextChars),
     bbox |-> [x0 |-> Round2(rect.x0), y0 |-> Round2(rect.y0),
               x1 |-> Round2(rect.x1), y1 |-> Round2(rect.y1)]]

\* for rect in text_instances: build the occurrence, create the list on
\* first use, append
AddOccurrence ==
    /\ pc = "rect_loop"
    /\ rect_i <= Len(text_instances)
    /\ LET occ == Occurrence(text_instances[rect_i])
           old == IF CurTag \in DOMAIN tag_occurrences
                  THEN tag_occurrences[CurTag] ELSE <<>>
       IN /\ tag_occurrences' =
                (CurTag :> AppendOccurrence(old, occ)) @@ tag_occurrences
          /\ log' = Append(log, [tag |-> CurTag, page |-> page_num,
                                 match |-> match_i, rect |-> rect_i,
                                 occ |-> occ])
    /\ rect_i' = rect_i + 1
    /\ UNCHANGED <<pc, doc, handle, closes, num_pages, page_num, text, matches,
                   match_i, text_instances, all_tags, calls, index, io, exc,
                   pure>>
\* the rectangles are exhausted: next match
RectsDone ==
    /\ pc = "rect_loop"
    /\ rect_i > Len(text_instances)
    /\ match_i' = match_i + 1
    /\ pc' = "match_loop"
    /\ UNCHANGED <<doc, handle, closes, num_pages, page_num, text, matches,
                   text_instances, rect_i, tag_occurrences, all_tags, log,
                   calls, index, io, exc, pure>>

\* after the page loop: doc.close()
CloseDoc ==
    /\ pc = "page_loop"
    /\ page_num >= num_pages
    /\ handle' = "closed"
    /\ closes' = closes + 1
    /\ pc' = "build"
    /\ UNCHANGED <<doc, scan, index, io, exc, pure>>

\* index = {...}; print("Found ..."); return index
BuildIndex ==
    /\ pc = "build"
    /\ index' = [pdf_file |-> doc.name,
                 total_pages |-> num_pages,
                 total_tags |-> Cardinality(all_tags),
                 tags |-> tag_occurrences]
    /\ stdout' = Append(stdout, "Found")
    /\ pc' = "save"
    /\ UNCHANGED <<doc, handle, closes, scan, outfile, out_handle, stderr,
                   exit_code, exc, pure>>

\* with open(output_path, 'w') as f: the file is created or truncated
OpenOutput ==
    /\ pc = "save"
    /\ outfile' = [exists |-> TRUE, content |-> <<>>]
    /\ out_handle' = "open"
    /\ pc' = "dump"
    /\ UNCHANGED <<doc, handle, closes, scan, index, stdout, stderr, exit_code,
                   exc, pure>>
\* the output path is not writable
OpenOutputFails ==
    /\ pc = "save"
    /\ Raise("IOError")
    /\ UNCHANGED <<doc, handle, closes, scan, index, io, pure>>

\* json.dump writes the next chunk
DumpChunk ==
    /\ pc = "dump"
    /\ Len(outfile.content) < NumChunks
    /\ outfile' = [outfile EXCEPT !.content =
                      Append(@, Serialize(index)[Len(@) + 1])]
    /\ UNCHANGED <<pc, doc, handle, closes, scan, index, out_handle, stdout,
                   stderr, exit_code, exc, pure>>
\* a write raises: the with block closes f and the exception propagates
DumpFails ==
    /\ pc = "dump"
    /\ Len(outfile.content) < NumChunks
    /\ out_handle' = "closed"
    /\ Raise("IOError")
    /\ UNCHANGED <<doc, handle, closes, scan, index, outfile, stdout, stderr,
                   exit_code, pure>>
\* the with block ends: f is closed; print("Index saved to ...")
CloseOutput ==
    /\ pc = "dump"
    /\ Len(outfile.content) = NumChunks
    /\ out_handle' = "closed"
    /\ stdout' = Append(stdout, "Index saved")
    /\ pc' = "summary"
    /\ UNCHANGED <<doc, handle, closes, scan, index, outfile, stderr,
                   exit_code, exc, pure>>

\* the summary prints; main returns and the process exits with status 0
PrintSummary ==
    /\ pc = "summary"
    /\ stdout' = Append(stdout, "Extraction complete!")
    /\ exit_code' = 0
    /\ pc' = "exited"
    /\ UNCHANGED <<doc, handle, closes, scan, index, outfile, out_handle,
                   stderr, exc, pure>>

\* except Exception as e: print(f"Error: {e}", file=sys.stderr); sys.exit(1)
HandleException ==
    /\ pc = "except"
    /\ stderr' = Append(stderr, <<"Error: ", exc>>)
    /\ exit_code' = 1
    /\ pc' = "exited"
    /\ UNCHANGED <<doc, handle, closes, scan, index, outfile, out_handle,
                   stdout, exc, pure>>

Next ==
    \/ CheckExists \/ CheckExistsFails
    \/ OpenDoc \/ OpenDocFails
    \/ GetText \/ GetTextFails
    \/ NextMatch \/ NextPage
    \/ SearchFor \/ SearchForFails
    \/ AddOccurrence \/ RectsDone
    \/ CloseDoc \/ BuildIndex
    \/ OpenOutput \/ OpenOutputFails
    \/ DumpChunk \/ DumpFails \/ CloseOutput
    \/ PrintSummary \/ HandleException

Spec == Init /\ [][Next]_vars
\* main is a sequential program: it keeps taking steps until it exits
FairSpec == Spec /\ WF_vars(Next)

(***************************************************************************)
(* extract_snippet applied to bounded inputs                               *)
(***************************************************************************)
SeqsUpTo(S, n) == UNION {[1..k -> S] : k \in 0..n}
SnippetAlphabet == {"a", " ", "\n", "."}
\* a text of length 200 with a match at [100, 108], and one at [0, 8]
ExampleText == [i \in 1..200 |-> IF i % 7 = 0 THEN " " ELSE "a"]
ExampleArgs ==
    {[text |-> ExampleText, start |-> 100, end |-> 108,
      context |-> DefaultContextChars],
     [text |-> ExampleText, start |-> 0, end |-> 8,
      context |-> DefaultContextChars]}

InitSnippet ==
    /\ pc = "snippet_call"
    /\ \/ arg \in ExampleArgs
       \/ \E t \in SeqsUpTo(SnippetAlphabet, MaxTextLen) :
             \E b \in 0..Len(t) : \E a \in 0..b : \E c \in 0..MaxContext :
                arg = [text |-> t, start |-> a, end |-> b, context |-> c]
    /\ ret = <<>>
    /\ doc = MissingDoc /\ outfile = NoFile /\ MainStart

CallSnippet ==
    /\ pc = "snippet_call"
    /\ ret' = extract_snippet(arg.text, arg.start, arg.end, arg.context)
    /\ pc' = "snippet_ret"
    /\ UNCHANGED <<doc, handle, closes, scan, index, io, exc, arg>>

NextSnippet == CallSnippet
SpecSnippet == InitSnippet /\ [][NextSnippet]_vars

(***************************************************************************)
(* TAG_PATTERN applied to bounded inputs                                   *)
(***************************************************************************)
Tag1 == <<"0","1","/","A","C","5","0","1">>
Tag2 == <<"0","3","/","a","c","6","0","2">>
Tag3 == <<"1","2","/","A","b","3","4","5","6">>
PatternAlphabet == {"0", "A", "c", "/", "_", " "}
\* a string and everything one edit away from it
Edits(s) ==
    {s}
    \cup {[s EXCEPT ![i] = c] : i \in DOMAIN s, c \in PatternAlphabet}
    \cup {SubSeq(s, 1, i - 1) \o SubSeq(s, i + 1, Len(s)) : i \in DOMAIN s}
    \cup {SubSeq(s, 1, i) \o <<c>> \o SubSeq(s, i + 1, Len(s)) :
             i \in 0..Len(s), c \in PatternAlphabet}
\* the candidate tags: three tags and their one-edit variants
Cores == Edits(Tag1) \cup Edits(Tag2) \cup Edits(Tag3)

InitPattern ==
    /\ pc = "pattern_call"
    /\ \E pre \in SeqsUpTo(PatternAlphabet, MaxPad) :
          \E core \in Cores : \E post \in SeqsUpTo(PatternAlphabet, MaxPad) :
             arg = pre \o core \o post
    /\ ret = <<>>
    /\ doc = MissingDoc /\ outfile = NoFile /\ MainStart

\* the matches of the text, each with the key it is recorded under
CallPattern ==
    /\ pc = "pattern_call"
    /\ ret' = [i \in DOMAIN finditer(arg) |->
                  [start |-> finditer(arg)[i].start,
                   end |-> finditer(arg)[i].end,
                   group |-> finditer(arg)[i].group,
                   tag |-> Upper(finditer(arg)[i].group)]]
    /\ pc' = "pattern_ret"
    /\ UNCHANGED <<doc, handle, closes, scan, index, io, exc, arg>>

NextPattern == CallPattern
SpecPattern == InitPattern /\ [][NextPattern]_vars

(***************************************************************************)
(* Properties                                                              *)
(***************************************************************************)
\* extract_tags_from_pdf has returned its Index
IndexBuilt == index # NoIndex
\* the run has ended
Exited == pc = "exited"
\* the output file is as it was before the run
OutputUntouched == out_handle = "unopened" /\ outfile \in {NoFile, OldFile}
\* the output file holds the whole serialized Index
OutputComplete == IndexBuilt /\ outfile.exists /\ outfile.content = Serialize(index)
\* number of places where needle stands in s
CountInstances(s, needle) ==
    Cardinality({i \in 0..(Len(s) - Len(needle)) :
                    Slice(s, i, i + Len(needle)) = needle})
\* every search_for call so far returned one rectangle per instance of the
\* searched string on the page
OneRectPerInstance ==
    \A i \in DOMAIN calls :
        calls[i].n = CountInstances(doc.pages[calls[i].page + 1], calls[i].needle)
TagAC501 == <<"0","1","/","A","C","5","0","1">>
TagAC602 == <<"0","3","/","A","C","6","0","2">>
PagesOf(list) == [i \in DOMAIN list |-> list[i].page]

\* C1: in every returned Index total_tags equals the number of distinct keys
\* of tags, whatever the search_for calls returned.
C1_TotalTagsEqualsKeys ==
    IndexBuilt => index.total_tags = Cardinality(DOMAIN index.tags)

\* C2: for the three-page scenario document, with search_for returning one
\* rectangle per instance of the searched string, the Index has total_pages 3,
\* total_tags 2, three occurrences of 01/AC501 (one on page 1, two on page 3)
\* and one occurrence of 03/AC602 on page 3.
C2_ScenarioIndex ==
    (IndexBuilt /\ doc = ScenarioDoc /\ OneRectPerInstance) =>
        /\ index.total_pages = 3
        /\ index.total_tags = 2
        /\ DOMAIN index.tags = {TagAC501, TagAC602}
        /\ PagesOf(index.tags[TagAC501]) = <<1, 3, 3>>
        /\ PagesOf(index.tags[TagAC602]) = <<3>>

\* C3: once the document has been opened, every run ends with the handle
\* released exactly once, whether it ends with an Index or an exception.
C3_HandleReleasedOnce ==
    (Exited /\ handle # "unopened") => (handle = "closed" /\ closes = 1)

\* C4: every run ends with the output file either holding the complete
\* serialized Index or not created, truncated or modified at all.
C4_NoPartialOutput ==
    Exited => (OutputComplete \/ OutputUntouched)

\* the two ways a run ends, and the way a missing input path ends
C5_ExitOutcome ==
    /\ Exited =>
        \/ /\ exit_code = 0 /\ exc = "none" /\ stderr = <<>>
           /\ handle = "closed" /\ OutputComplete /\ out_handle = "closed"
        \/ /\ exit_code # 0 /\ exc # "none"
           /\ stderr = << <<"Error: ", exc>> >>
    /\ exc # "none" => pc \in {"except", "exited"}
    /\ (Exited /\ ~doc.exists) =>
        /\ exit_code # 0 /\ exc = "FileNotFound"
        /\ handle = "unopened" /\ closes = 0
        /\ OutputUntouched
\* C5: every run of main ends, either with exit code 0 after extraction and
\* save_index completed, or with a non-zero exit code and one Error line on
\* stderr when an exception was raised; a missing input path fails before the
\* document is opened and the output file is never opened or written.
C5_MainOutcome == []C5_ExitOutcome /\ <>Exited
C5_Witness ==
    /\ Exited /\ ~doc.exists /\ exit_code = 1
    /\ stderr = << <<"Error: ", "FileNotFound">> >>

\* C6: during the scan and in the returned Index every occurrence's page p
\* satisfies 1 <= p <= total_pages, the page count of the opened document.
C6_PagesInRange ==
    /\ \A t \in DOMAIN tag_occurrences : \A i \in DOMAIN tag_occurrences[t] :
          tag_occurrences[t][i].page \in 1..num_pages
    /\ IndexBuilt =>
          /\ index.total_pages = Len(doc.pages)
          /\ \A t \in DOMAIN index.tags : \A i \in DOMAIN index.tags[t] :
                index.tags[t][i].page \in 1..index.total_pages
C6_Witness ==
    /\ IndexBuilt /\ index.total_pages = 3
    /\ \E t \in DOMAIN index.tags :
          /\ index.tags[t][1].page = 1
          /\ index.tags[t][Len(index.tags[t])].page = index.total_pages

\* is appended occurrence a before b: earlier page, or same page and earlier
\* match, or same match and earlier rectangle
Before(a, b) ==
    \/ a.page < b.page
    \/ a.page = b.page /\ a.match < b.match
    \/ a.page = b.page /\ a.match = b.match /\ a.rect < b.rect
\* the appended occurrences of one tag, in the order of appending
RECURSIVE LogOf(_, _)
LogOf(l, t) ==
    IF l = <<>> THEN <<>>
    ELSE IF Head(l).tag = t THEN <<Head(l).occ>> \o LogOf(Tail(l), t)
    ELSE LogOf(Tail(l), t)
C7_Ordered ==
    /\ \A i, j \in DOMAIN log : i < j => Before(log[i], log[j])
    /\ \A t \in DOMAIN tag_occurrences :
          /\ tag_occurrences[t] = LogOf(log, t)
          /\ \A i, j \in DOMAIN tag_occurrences[t] :
                i < j => tag_occurrences[t][i].page <= tag_occurrences[t][j].page
C7_AppendOnly ==
    \A t \in DOMAIN tag_occurrences :
        /\ t \in DOMAIN tag_occurrences'
        /\ Len(tag_occurrences'[t]) >= Len(tag_occurrences[t])
        /\ SubSeq(tag_occurrences'[t], 1, Len(tag_occurrences[t]))
              = tag_occurrences[t]
\* C7: each tag's list only grows by appending and is ordered by page, then
\* match, then rectangle; page numbers in a list never decrease.
C7_OccurrenceOrder == []C7_Ordered /\ [][C7_AppendOnly]_vars
C7_Witness ==
    /\ IndexBuilt
    /\ \E t \in DOMAIN index.tags :
          /\ Len(index.tags[t]) >= 4
          /\ index.tags[t][1].page < index.tags[t][2].page
          /\ index.tags[t][2].bbox # index.tags[t][3].bbox

\* the non-whitespace characters of x in order, each marked with whether
\* whitespace separates it from the non-whitespace character before it
Tokens(x) ==
    SelectSeq([i \in 1..Len(x) |->
                  [c |-> x[i],
                   gap |-> /\ i > 1 /\ x[i - 1] \in Whitespace
                           /\ \E j \in 1..(i - 1) : x[j] \notin Whitespace]],
              LAMBDA e : e.c \notin Whitespace)
\* b has single spaces only, none of them at an end
SingleSpaced(b) ==
    \A i \in DOMAIN b :
        b[i] \in Whitespace =>
            /\ b[i] = " " /\ i > 1 /\ i < Len(b)
            /\ b[i - 1] \notin Whitespace /\ b[i + 1] \notin Whitespace
\* C8: the snippet is the window text[max(0, start-context) :
\* min(len(text), end+context)], trimmed and with whitespace runs collapsed,
\* with "..." put in front iff the window starts after offset 0 and "..."
\* put behind iff the window ends before the end of the text.
C8_SnippetWindow ==
    pc = "snippet_ret" =>
        LET lo == IF arg.start - arg.context > 0
                  THEN arg.start - arg.context ELSE 0
            hi == IF arg.end + arg.context < Len(arg.text)
                  THEN arg.end + arg.context ELSE Len(arg.text)
            window == [i \in 1..(hi - lo) |-> arg.text[lo + i]]
            np == IF lo > 0 THEN 3 ELSE 0
            ns == IF hi < Len(arg.text) THEN 3 ELSE 0
            body == SubSeq(ret, np + 1, Len(ret) - ns)
        IN /\ Len(ret) >= np + ns
           /\ SubSeq(ret, 1, np) = SubSeq(Ellipsis, 1, np)
           /\ SubSeq(ret, Len(ret) - ns + 1, Len(ret)) = SubSeq(Ellipsis, 1, ns)
           /\ SingleSpaced(body)
           /\ Tokens(body) = Tokens(window)
C8_Witness ==
    /\ pc = "snippet_ret"
    /\ Len(arg.text) = 200 /\ arg.start = 100 /\ arg.end = 108
    /\ Len(ret) = 3 + 108 + 3
    /\ SubSeq(ret, 1, 3) = Ellipsis /\ SubSeq(ret, 112, 114) = Ellipsis
    /\ SubSeq(ret, 4, 9) = <<"a", "a", "a", "a", "a", " ">>

\* s[i:j] is two digits, a slash, two letters, three or four digits
TagShape(s, i, j) ==
    /\ j - i \in {8, 9}
    /\ s[i + 1] \in Digits /\ s[i + 2] \in Digits
    /\ s[i + 3] = "/"
    /\ s[i + 4] \in UpperSet \cup LowerSet
    /\ s[i + 5] \in UpperSet \cup LowerSet
    /\ \A k \in (i + 6)..j : s[k] \in Digits
\* s[i:j] is a whole token: no word character touches it on either side
WholeToken(s, i, j) ==
    /\ i = 0 \/ ~(s[i] \in Digits \cup UpperSet
                          \cup LowerSet \cup {"_"})
    /\ j = Len(s) \/ ~(s[j + 1] \in Digits \cup UpperSet
                                \cup LowerSet \cup {"_"})
\* C9: the matcher yields a match covering a stretch of the text iff the
\* stretch is two digits, a slash, two letters of either case and three or
\* four digits, standing as a whole token; each match is keyed by its
\* upper-cased text, an upper-case string of that shape.
C9_PatternAccepts ==
    pc = "pattern_ret" =>
        /\ \A i \in 0..Len(arg) : \A j \in i..Len(arg) :
              (\E k \in DOMAIN ret : ret[k].start = i /\ ret[k].end = j)
                  <=> (TagShape(arg, i, j) /\ WholeToken(arg, i, j))
        /\ \A k \in DOMAIN ret :
              /\ TagShape(ret[k].tag, 0, Len(ret[k].tag))
              /\ ret[k].tag[4] \in UpperSet
              /\ ret[k].tag[5] \in UpperSet
              /\ Len(ret[k].tag) = ret[k].end - ret[k].start
              /\ \A n \in DOMAIN ret[k].tag :
                    ret[k].tag[n] = arg[ret[k].start + n]
                    \/ /\ arg[ret[k].start + n] \in LowerSet
                       /\ ret[k].tag[n] \in UpperSet
C9_Witness ==
    /\ pc = "pattern_ret"
    /\ arg = <<" ">> \o Tag2 \o <<" ">>
    /\ Len(ret) = 1 /\ ret[1].tag = TagAC602

\* C10: every key of tags has a non-empty list and is one of the tags counted
\* by total_tags, so keys never outnumber total_tags; a tag is counted once
\* its text is matched and gets a key only after a search_for call for it
\* returned at least one rectangle.
C10_KeysCounted ==
    /\ \A t \in DOMAIN tag_occurrences :
          /\ tag_occurrences[t] # <<>>
          /\ t \in all_tags
          /\ \E i \in DOMAIN calls : Upper(calls[i].needle) = t /\ calls[i].n >= 1
    /\ pc \in {"search", "rect_loop"} => CurTag \in all_tags
    /\ IndexBuilt =>
          /\ index.total_tags = Cardinality(all_tags)
          /\ DOMAIN index.tags \subseteq all_tags
          /\ \A t \in DOMAIN index.tags : index.tags[t] # <<>>
          /\ Cardinality(DOMAIN index.tags) <= index.total_tags
C10_Witness ==
    /\ IndexBuilt
    /\ DOMAIN index.tags # {}
    /\ Cardinality(DOMAIN index.tags) < index.total_tags

====
